---- MODULE Spec2Model ----
(***************************************************************************)
(* A model of tffmt's formatting pipeline (pkg/formatter/formatter.go).    *)
(*                                                                         *)
(* A byte sequence is modelled as a sequence of symbols.  Each symbol is   *)
(* a string standing for exactly the bytes it spells: "\n", " ", "{",      *)
(* "}", "(", ")", "=", one-letter identifiers, and the two keywords        *)
(* "resource" and "variable".  Adjacent identifier symbols spell one       *)
(* longer identifier, as adjacent bytes do.                                *)
(***************************************************************************)
EXTENDS Integers, Sequences, FiniteSets, TLC

VARIABLES cfg, content, orig, src, formatted, changed, passes,
          paths, fs, walk, root, exit, results, done,
          settings, passedFlags, prior,
          heap, slice, pc

\* The state of one file under processFile, and the state of a run of Main.
fileVars == <<content, orig, src, formatted, changed, passes>>

mainVars == <<paths, fs, walk, root, exit, results, done>>

\* The inputs of ApplySettings and the Config before the call.
settingsVars == <<settings, passedFlags, prior>>

\* The byte arrays of one call of Format, the slice it holds and the
\* statement it is at.
memVars == <<heap, slice, pc>>

\* What the specifications that do not use them keep as it is.
idleVars == <<settingsVars, memVars>>

Idle ==
  /\ settings = <<>>
  /\ passedFlags = {}
  /\ prior = <<>>
  /\ heap = <<>>
  /\ slice = <<>>
  /\ pc = ""

vars == <<cfg, fileVars, mainVars, settingsVars, memVars>>

NL == "\n"
SP == " "

\* The identifier symbols of the model and the bytes each one spells.
WordSyms == {"a", "b", "Z", "x", "resource", "variable"}

SymBytes(c) ==
  CASE c = "a" -> <<97>>
    [] c = "b" -> <<98>>
    [] c = "Z" -> <<90>>
    [] c = "x" -> <<120>>
    [] c = "resource" -> <<114, 101, 115, 111, 117, 114, 99, 101>>
    [] c = "variable" -> <<118, 97, 114, 105, 97, 98, 108, 101>>
    [] c = NL -> <<10>>
    [] c = SP -> <<32>>
    [] c = "{" -> <<123>>
    [] c = "}" -> <<125>>
    [] c = "(" -> <<40>>
    [] c = ")" -> <<41>>
    [] c = "=" -> <<61>>

\* \s of Go's regexp, restricted to the whitespace the model has.
IsSpace(c) == c \in {SP, NL}

RECURSIVE SkipSpace(_, _)
SkipSpace(s, i) ==
  IF i <= Len(s) /\ IsSpace(s[i]) THEN SkipSpace(s, i + 1) ELSE i

RECURSIVE SkipNewlines(_, _)
SkipNewlines(s, i) ==
  IF i <= Len(s) /\ s[i] = NL THEN SkipNewlines(s, i + 1) ELSE i

(***************************************************************************)
(* Helpers on sequences.                                                   *)
(***************************************************************************)

Min(S) == CHOOSE m \in S : \A n \in S : m <= n

Max(S) == CHOOSE m \in S : \A n \in S : n <= m

\* The concatenation of the sequences ss[lo], ..., ss[hi].
RECURSIVE ConcatRange(_, _, _)
ConcatRange(ss, lo, hi) ==
  IF lo > hi THEN <<>>
  ELSE IF lo = hi THEN ss[lo]
  ELSE ConcatRange(ss, lo, (lo + hi) \div 2)
         \o ConcatRange(ss, (lo + hi) \div 2 + 1, hi)

Concat(ss) == ConcatRange(ss, 1, Len(ss))

(***************************************************************************)
(* The regular expressions of formatter.go and regexp.ReplaceAll.  A       *)
(* regular expression is modelled by re(s, i): the position of the last    *)
(* byte of its match that starts at position i of s (the longest one,      *)
(* the quantifiers being greedy), or 0 when it does not match there.       *)
(***************************************************************************)

\* A variant of reOpenParenBrace whose pattern is `\({`: no whitespace
\* between the two delimiters.
reOpenParenBrace_NoSpace(s, i) ==
  IF s[i] = "(" /\ i + 1 <= Len(s) /\ s[i + 1] = "{" THEN i + 1 ELSE 0

\* reOpenParenBrace = `\(\s*{`
reOpenParenBrace(s, i) ==
  LET j == SkipSpace(s, i + 1)
  IN  IF s[i] = "(" /\ j <= Len(s) /\ s[j] = "{" THEN j ELSE 0

\* A variant of reCloseBraceParen whose pattern is `}\s*\)?`: the
\* parenthesis is optional.
reCloseBraceParen_OptionalParen(s, i) ==
  LET j == SkipSpace(s, i + 1)
  IN  IF s[i] # "}" THEN 0
      ELSE IF j <= Len(s) /\ s[j] = ")" THEN j ELSE j - 1

\* reCloseBraceParen = `}\s*\)`
reCloseBraceParen(s, i) ==
  LET j == SkipSpace(s, i + 1)
  IN  IF s[i] = "}" /\ j <= Len(s) /\ s[j] = ")" THEN j ELSE 0

\* A variant of reCollapseBlank that matches nowhere.
reCollapseBlank_None(s, i) == 0

\* reCollapseBlank = `\n{3,}`
reCollapseBlank(s, i) ==
  LET j == SkipNewlines(s, i)
  IN  IF j - i >= 3 THEN j - 1 ELSE 0

\* rePadSingle = `}\n([^\n])`
rePadSingle(s, i) ==
  IF s[i] = "}" /\ i + 2 <= Len(s) /\ s[i + 1] = NL /\ s[i + 2] # NL
  THEN i + 2 ELSE 0

\* reResourceBlocks = `}\n{0,2}(resource\s+)`; the group starts at
\* ResourceGroup(s, i).
ResourceGroup(s, i) == SkipNewlines(s, i + 1)

reResourceBlocks(s, i) ==
  LET k == ResourceGroup(s, i)
      e == SkipSpace(s, k + 1)
  IN  IF /\ s[i] = "}"
         /\ k - (i + 1) <= 2
         /\ k <= Len(s) /\ s[k] = "resource"
         /\ e > k + 1
      THEN e - 1 ELSE 0

\* The replacement templates of formatter.go:45-49 and 61-62, expanded for
\* the match that starts at i.
OpenParenBraceRepl(s, i) == <<"(", NL, "{">>

CloseBraceParenRepl(s, i) == <<"}", NL, ")">>

CollapseBlankRepl(s, i) == <<NL, NL>>

\* "}\n\n$1"
PadSingleRepl(s, i) == <<"}", NL, NL, s[i + 2]>>

\* "}\n\n$1"
ResourceBlocksRepl(s, i) ==
  <<"}", NL, NL>> \o SubSeq(s, ResourceGroup(s, i), reResourceBlocks(s, i))

\* The scan of ReplaceAll from position i on: the leftmost match is
\* replaced and the scan goes on after its last byte.
RECURSIVE Replace(_, _, _, _)
Replace(s, end, repl, i) ==
  LET matches == {j \in i..Len(s) : end[j] # 0}
      m == Min(matches)
  IN  IF matches = {} THEN SubSeq(s, i, Len(s))
      ELSE SubSeq(s, i, m - 1) \o repl[m] \o Replace(s, end, repl, end[m] + 1)

\* re.ReplaceAll(s, template) for each of the five expressions: end[j] is
\* the last position of the match that starts at j, and the template is
\* expanded for the positions that start a match.
Matches(end) == {j \in DOMAIN end : end[j] # 0}

reOpenParenBraceReplaceAll(s) ==
  LET end == [j \in 1..Len(s) |-> reOpenParenBrace(s, j)]
  IN  Replace(s, end, [j \in Matches(end) |-> OpenParenBraceRepl(s, j)], 1)

reCloseBraceParenReplaceAll(s) ==
  LET end == [j \in 1..Len(s) |-> reCloseBraceParen(s, j)]
  IN  Replace(s, end, [j \in Matches(end) |-> CloseBraceParenRepl(s, j)], 1)

reCollapseBlankReplaceAll(s) ==
  LET end == [j \in 1..Len(s) |-> reCollapseBlank(s, j)]
  IN  Replace(s, end, [j \in Matches(end) |-> CollapseBlankRepl(s, j)], 1)

rePadSingleReplaceAll(s) ==
  LET end == [j \in 1..Len(s) |-> rePadSingle(s, j)]
  IN  Replace(s, end, [j \in Matches(end) |-> PadSingleRepl(s, j)], 1)

reResourceBlocksReplaceAll(s) ==
  LET end == [j \in 1..Len(s) |-> reResourceBlocks(s, j)]
  IN  Replace(s, end, [j \in Matches(end) |-> ResourceBlocksRepl(s, j)], 1)

\* A variant of TrimRight that trims at most one newline.
TrimRight_One(s) ==
  IF Len(s) > 0 /\ s[Len(s)] = NL THEN SubSeq(s, 1, Len(s) - 1) ELSE s

\* bytes.TrimRight(form, "\n")
RECURSIVE TrimRight(_)
TrimRight(s) ==
  IF Len(s) > 0 /\ s[Len(s)] = NL THEN TrimRight(SubSeq(s, 1, Len(s) - 1)) ELSE s

(***************************************************************************)
(* hclwrite.Format, the canonical renderer called at formatter.go:42.  It  *)
(* lexes the bytes into tokens, never adds or removes a token or a         *)
(* newline, and rewrites only the spaces before each token: formatIndent   *)
(* (two spaces per open bracket level), formatSpaces (zero or one space    *)
(* between two tokens of a line) and formatCells (the "=" of consecutive   *)
(* assignment lines in one column).  The spaces before the end of file     *)
(* belong to no line and are kept.                                         *)
(***************************************************************************)

\* The positions of the newlines of s, in order.
NewlinePositions(s) ==
  Concat([i \in 1..Len(s) |-> IF s[i] = NL THEN <<i>> ELSE <<>>])

\* The lines of s: the symbols before each newline, and whether a newline
\* ends the line (the last line is the one the end of file ends).
SplitLines(s) ==
  LET nls == NewlinePositions(s)
      start(k) == IF k = 1 THEN 1 ELSE nls[k - 1] + 1
  IN  [k \in 1..(Len(nls) + 1) |->
         IF k <= Len(nls)
         THEN [body |-> SubSeq(s, start(k), nls[k] - 1), nl |-> TRUE]
         ELSE [body |-> SubSeq(s, start(k), Len(s)), nl |-> FALSE]]

RECURSIVE WordEnd(_, _)
WordEnd(s, i) ==
  IF i <= Len(s) /\ s[i] \in WordSyms THEN WordEnd(s, i + 1) ELSE i

\* The tokens of one line: an identifier is a maximal run of identifier
\* symbols, every other symbol but the space is a token of its own.
RECURSIVE Tokens(_, _)
Tokens(s, i) ==
  IF i > Len(s) THEN <<>>
  ELSE IF s[i] = SP THEN Tokens(s, i + 1)
  ELSE IF s[i] \in WordSyms
       THEN <<SubSeq(s, i, WordEnd(s, i) - 1)>> \o Tokens(s, WordEnd(s, i))
       ELSE <<<<s[i]>>>> \o Tokens(s, i + 1)

\* The tokens of a whole text, its newlines included.
FileTokens(s) ==
  LET ls == SplitLines(s)
  IN  Concat([k \in 1..Len(ls) |->
                Tokens(ls[k].body, 1) \o (IF ls[k].nl THEN <<<<NL>>>> ELSE <<>>)])

RECURSIVE TrailingSpaces(_)
TrailingSpaces(s) ==
  IF Len(s) > 0 /\ s[Len(s)] = SP
  THEN 1 + TrailingSpaces(SubSeq(s, 1, Len(s) - 1)) ELSE 0

IsIdent(tok) == tok[1] \in WordSyms

tokenBracketChange(tok) ==
  IF tok[1] \in {"{", "("} THEN 1 ELSE IF tok[1] \in {"}", ")"} THEN -1 ELSE 0

RECURSIVE NetBrackets(_, _)
NetBrackets(toks, i) ==
  IF i > Len(toks) THEN 0 ELSE tokenBracketChange(toks[i]) + NetBrackets(toks, i + 1)

RECURSIVE ByteLen(_)
ByteLen(tok) ==
  IF tok = <<>> THEN 0 ELSE Len(SymBytes(Head(tok))) + ByteLen(Tail(tok))

spaceAfterThisToken(subject, after) ==
  CASE IsIdent(subject) /\ after[1] = "(" -> FALSE
    [] subject[1] = "{" /\ after[1] = "}" -> FALSE
    [] subject[1] = "{" \/ after[1] = "}" -> TRUE
    [] tokenBracketChange(subject) > 0 -> FALSE
    [] tokenBracketChange(after) < 0 -> FALSE
    [] OTHER -> TRUE

\* linesForFormat: the position of the "=" that starts the line's assign
\* cell (0 when the line has none): the first "=" after the first token,
\* if the tokens from it on close as many brackets as they open.
RECURSIVE FirstEqual(_, _)
FirstEqual(toks, i) ==
  IF i > Len(toks) THEN 0
  ELSE IF toks[i] = <<"=">> THEN i ELSE FirstEqual(toks, i + 1)

AssignAt(toks) ==
  LET i == FirstEqual(toks, 2)
  IN  IF i > 0 /\ NetBrackets(toks, i) = 0 THEN i ELSE 0

linesForFormat(s) ==
  LET ls == SplitLines(s)
  IN  [k \in 1..Len(ls) |->
         LET toks == Tokens(ls[k].body, 1)
         IN  [toks |-> toks, nl |-> ls[k].nl, assign |-> AssignAt(toks),
              eof |-> IF ls[k].nl THEN 0 ELSE TrailingSpaces(ls[k].body)]]

RECURSIVE CloseIndents(_, _)
CloseIndents(indents, closed) ==
  IF closed > 0 /\ Len(indents) > 0
  THEN LET top == indents[Len(indents)]
           rest == SubSeq(indents, 1, Len(indents) - 1)
       IN  IF closed > top THEN CloseIndents(rest, closed - top)
           ELSE IF closed < top THEN Append(rest, top - closed)
           ELSE rest
  ELSE indents

\* formatIndent: the spaces before the first token of each line.
RECURSIVE formatIndent(_, _, _)
formatIndent(lines, k, indents) ==
  IF k > Len(lines) THEN <<>>
  ELSE LET net == NetBrackets(lines[k].toks, 1)
       IN  IF lines[k].toks = <<>> THEN <<0>> \o formatIndent(lines, k + 1, indents)
           ELSE IF net > 0
           THEN <<2 * Len(indents)>> \o formatIndent(lines, k + 1, Append(indents, net))
           ELSE IF net < 0
           THEN <<2 * Len(CloseIndents(indents, -net))>>
                  \o formatIndent(lines, k + 1, CloseIndents(indents, -net))
           ELSE <<2 * Len(indents)>> \o formatIndent(lines, k + 1, indents)

\* formatSpaces: the spaces before token i > 1 of a line.
SpacesBefore(toks, i) ==
  IF spaceAfterThisToken(toks[i - 1], toks[i]) THEN 1 ELSE 0

\* Columns of the lead cell of a line: its indent, tokens and inner spaces.
RECURSIVE Columns(_, _, _)
Columns(toks, i, last) ==
  IF i > last THEN 0
  ELSE (IF i > 1 THEN SpacesBefore(toks, i) ELSE 0) + ByteLen(toks[i])
         + Columns(toks, i + 1, last)

RECURSIVE ChainStart(_, _)
ChainStart(lines, k) ==
  IF k > 1 /\ lines[k - 1].assign > 0 THEN ChainStart(lines, k - 1) ELSE k

RECURSIVE ChainEnd(_, _)
ChainEnd(lines, k) ==
  IF k < Len(lines) /\ lines[k + 1].assign > 0 THEN ChainEnd(lines, k + 1) ELSE k

\* formatCells: the spaces before the "=" of line k, which put the "=" of
\* every line of its chain of consecutive assignment lines in one column.
formatCells(lines, ind, k) ==
  LET cols(j) == ind[j] + Columns(lines[j].toks, 1, lines[j].assign - 1)
      maxColumns == Max({cols(j) : j \in ChainStart(lines, k)..ChainEnd(lines, k)})
  IN  (maxColumns - cols(k)) + 1

Spaces(n) == [i \in 1..n |-> SP]

RECURSIVE JoinTokens(_, _, _, _, _)
JoinTokens(lines, ind, k, i, acc) ==
  LET toks == lines[k].toks
  IN  IF i > Len(toks) THEN acc
      ELSE JoinTokens(lines, ind, k, i + 1,
             acc \o Spaces(IF i = 1 THEN ind[k]
                           ELSE IF i = lines[k].assign THEN formatCells(lines, ind, k)
                           ELSE SpacesBefore(toks, i))
                 \o toks[i])

WriteLines(lines, ind) ==
  Concat([k \in 1..Len(lines) |->
            JoinTokens(lines, ind, k, 1, <<>>)
              \o (IF lines[k].nl THEN <<NL>> ELSE Spaces(lines[k].eof))])

\* format(tokens) followed by Tokens.WriteTo
formatTokens(s) ==
  LET lines == linesForFormat(s)
  IN  WriteLines(lines, formatIndent(lines, 1, <<>>))

hclwriteFormat(s) == formatTokens(s)

(***************************************************************************)
(* hclwrite.ParseConfig, as the sort transforms use it.  The parsed file   *)
(* is the ordered list of the nodes of its body; a node is a newline       *)
(* token, an attribute (name "=" expression, with the newline that ends    *)
(* it) or a block (type, labels, its body between braces, with the newline *)
(* that ends it).  The expressions of the model are single identifiers.    *)
(* Any other token sequence is a parse error.                              *)
(***************************************************************************)

NewlineNode == [k |-> "nl"]
AttrNode(name, expr, nl) == [k |-> "attr", name |-> name, expr |-> expr, nl |-> nl]
BlockNode(type, labels, form, body, nl) ==
  [k |-> "block", type |-> type, labels |-> labels, form |-> form,
   body |-> body, nl |-> nl]

ParseFail == [ok |-> FALSE, nodes |-> <<>>, next |-> 0]

EOFTok == <<"EOF">>
At(toks, i) == IF i <= Len(toks) THEN toks[i] ELSE EOFTok

\* The newline or the end of file that must end an attribute or a block.
EndsItem(toks, i) ==
  IF At(toks, i) = <<NL>> THEN [ok |-> TRUE, nl |-> TRUE, next |-> i + 1]
  ELSE IF At(toks, i) = EOFTok THEN [ok |-> TRUE, nl |-> FALSE, next |-> i]
  ELSE [ok |-> FALSE, nl |-> FALSE, next |-> i]

RECURSIVE LabelsEnd(_, _)
LabelsEnd(toks, i) ==
  IF i <= Len(toks) /\ IsIdent(toks[i]) THEN LabelsEnd(toks, i + 1) ELSE i

Cons(node, r) == IF r.ok THEN [r EXCEPT !.nodes = <<node>> \o @] ELSE ParseFail

RECURSIVE ParseBody(_, _, _)
RECURSIVE ParseItem(_, _)

\* One attribute or block that starts with the identifier at position i.
ParseItem(toks, i) ==
  IF At(toks, i + 1) = <<"=">>
  THEN LET e == EndsItem(toks, i + 3)
       IN  IF IsIdent(At(toks, i + 2)) /\ e.ok
           THEN [ok |-> TRUE, node |-> AttrNode(toks[i], <<toks[i + 2]>>, e.nl),
                 next |-> e.next]
           ELSE [ok |-> FALSE]
  ELSE LET b == LabelsEnd(toks, i + 1)
           labels == SubSeq(toks, i + 1, b - 1)
       IN  IF At(toks, b) # <<"{">> THEN [ok |-> FALSE]
           ELSE IF At(toks, b + 1) = <<NL>>
           THEN LET body == ParseBody(toks, b + 2, TRUE)
                    e == EndsItem(toks, body.next + 1)
                IN  IF body.ok /\ e.ok
                    THEN [ok |-> TRUE, next |-> e.next,
                          node |-> BlockNode(toks[i], labels, "multi", body.nodes, e.nl)]
                    ELSE [ok |-> FALSE]
           ELSE IF At(toks, b + 1) = <<"}">>
           THEN LET e == EndsItem(toks, b + 2)
                IN  IF e.ok
                    THEN [ok |-> TRUE, next |-> e.next,
                          node |-> BlockNode(toks[i], labels, "empty", <<>>, e.nl)]
                    ELSE [ok |-> FALSE]
           ELSE LET e == EndsItem(toks, b + 5)
                IN  IF /\ IsIdent(At(toks, b + 1)) /\ At(toks, b + 2) = <<"=">>
                       /\ IsIdent(At(toks, b + 3)) /\ At(toks, b + 4) = <<"}">>
                       /\ e.ok
                    THEN [ok |-> TRUE, next |-> e.next,
                          node |-> BlockNode(toks[i], labels, "single",
                                     <<AttrNode(toks[b + 1], <<toks[b + 3]>>, FALSE)>>,
                                     e.nl)]
                    ELSE [ok |-> FALSE]

\* The nodes of a body from position i on: to the end of file at the top
\* level, to the closing brace (left at .next) inside a block.
ParseBody(toks, i, nested) ==
  LET t == At(toks, i)
  IN  IF t = EOFTok
      THEN IF nested THEN ParseFail ELSE [ok |-> TRUE, nodes |-> <<>>, next |-> i]
      ELSE IF t = <<NL>> THEN Cons(NewlineNode, ParseBody(toks, i + 1, nested))
      ELSE IF t = <<"}">>
      THEN IF nested THEN [ok |-> TRUE, nodes |-> <<>>, next |-> i] ELSE ParseFail
      ELSE IF IsIdent(t)
      THEN LET item == ParseItem(toks, i)
           IN  IF item.ok THEN Cons(item.node, ParseBody(toks, item.next, nested))
               ELSE ParseFail
      ELSE ParseFail

IsAttr(n) == n.k = "attr"
IsBlock(n) == n.k = "block"

\* hclsyntax reports "Attribute redefined" for two attributes of one name
\* in one body.
RECURSIVE NoRedefinition(_)
NoRedefinition(nodes) ==
  /\ \A i, j \in 1..Len(nodes) :
       (i < j /\ IsAttr(nodes[i]) /\ IsAttr(nodes[j])) => nodes[i].name # nodes[j].name
  /\ \A i \in 1..Len(nodes) : IsBlock(nodes[i]) => NoRedefinition(nodes[i].body)

ParseConfig(in) ==
  LET r == ParseBody(FileTokens(in), 1, FALSE)
  IN  IF r.ok /\ NoRedefinition(r.nodes)
      THEN [ok |-> TRUE, nodes |-> r.nodes, eof |-> TrailingSpaces(in)]
      ELSE [ok |-> FALSE, nodes |-> <<>>, eof |-> 0]

\* BuildTokens: the tokens of a list of nodes, in order.
RECURSIVE BuildTokens(_)
BuildTokens(nodes) ==
  IF nodes = <<>> THEN <<>>
  ELSE LET n == Head(nodes)
           end == IF n.nl THEN <<<<NL>>>> ELSE <<>>
       IN  (CASE n.k = "nl" -> <<<<NL>>>>
              [] n.k = "attr" -> <<n.name, <<"=">>>> \o n.expr \o end
              [] n.k = "block" ->
                   <<n.type>> \o n.labels \o <<<<"{">>>>
                     \o (IF n.form = "multi" THEN <<<<NL>>>> ELSE <<>>)
                     \o BuildTokens(n.body) \o <<<<"}">>>> \o end)
           \o BuildTokens(Tail(nodes))

\* The bytes of a token list, one space before each token of a line.
TokensText(toks) ==
  Concat([i \in 1..Len(toks) |->
            IF toks[i] = <<NL>> THEN <<NL>> ELSE <<SP>> \o toks[i]])

\* File.Bytes: WriteTo builds the tokens of the tree and formats them; the
\* end-of-file token keeps the spaces the source had before it.
FileBytes(file) ==
  formatTokens(TokensText(BuildTokens(file.nodes)) \o Spaces(file.eof))

(***************************************************************************)
(* The sort transforms.                                                    *)
(***************************************************************************)

RECURSIVE TokBytes(_)
TokBytes(tok) ==
  IF tok = <<>> THEN <<>> ELSE SymBytes(Head(tok)) \o TokBytes(Tail(tok))

\* Go's < on strings: byte-wise, a proper prefix first.
RECURSIVE BytesLess(_, _)
BytesLess(x, y) ==
  IF y = <<>> THEN FALSE
  ELSE IF x = <<>> THEN TRUE
  ELSE IF Head(x) # Head(y) THEN Head(x) < Head(y)
  ELSE BytesLess(Tail(x), Tail(y))

StringLess(a, b) == BytesLess(TokBytes(a), TokBytes(b))

Swap(seq, i, j) == [seq EXCEPT ![i] = seq[j], ![j] = seq[i]]

\* A variant of sortStrings that leaves the names as they were collected.
sortStrings_None(names, i) == names

\* sort.Strings(attrNames): insertion sort, which Go's sort uses for fewer
\* than 12 elements.
RECURSIVE SinkString(_, _)
SinkString(names, j) ==
  IF j > 1 /\ StringLess(names[j], names[j - 1])
  THEN SinkString(Swap(names, j, j - 1), j - 1) ELSE names

RECURSIVE sortStrings(_, _)
sortStrings(names, i) ==
  IF i > Len(names) THEN names ELSE sortStrings(SinkString(names, i), i + 1)

\* block.Body().Attributes(), in body order
Attributes(body) == SelectSeq(body, IsAttr)

NotAttr(n) == ~IsAttr(n)

\* A variant of AttrNamed that returns the same attribute for every name.
AttrNamed_First(body, name) == Attributes(body)[1]

AttrNamed(body, name) ==
  LET as == Attributes(body)
  IN  as[CHOOSE i \in 1..Len(as) : as[i].name = name]

\* A variant of sortBlockInputs that does not look at the type of the
\* block.
sortBlockInputs_AnyType(block) ==
  LET attributes == Attributes(block.body)
      attrNames == sortStrings([i \in 1..Len(attributes) |-> attributes[i].name], 2)
      removed == SelectSeq(block.body, NotAttr)
  IN  IF Len(attributes) > 0
      THEN [block EXCEPT !.body =
              removed \o [i \in 1..Len(attrNames) |->
                            AttrNode(attrNames[i],
                                     AttrNamed(block.body, attrNames[i]).expr, TRUE)]]
      ELSE block

\* formatter.go:89-118, for one top-level block: RemoveAttribute for every
\* attribute, then SetAttributeRaw for each name in sorted order, which
\* adds the attribute, with a newline of its own, at the end of the body.
sortBlockInputs(block) ==
  LET attributes == Attributes(block.body)
      attrNames == sortStrings([i \in 1..Len(attributes) |-> attributes[i].name], 2)
      removed == SelectSeq(block.body, NotAttr)
  IN  IF block.type = <<"resource">> /\ Len(attributes) > 0
      THEN [block EXCEPT !.body =
              removed \o [i \in 1..Len(attrNames) |->
                            AttrNode(attrNames[i],
                                     AttrNamed(block.body, attrNames[i]).expr, TRUE)]]
      ELSE block

sortResourceInputsFile(file) ==
  [file EXCEPT !.nodes =
     [i \in 1..Len(file.nodes) |->
        IF IsBlock(file.nodes[i]) THEN sortBlockInputs(file.nodes[i])
        ELSE file.nodes[i]]]

\* A variant of sortResourceInputs that does not look at the parse error.
sortResourceInputs_IgnoreError(in) ==
  FileBytes(sortResourceInputsFile(ParseConfig(in)))

sortResourceInputs(in) ==
  LET file == ParseConfig(in)
  IN  IF ~file.ok THEN in ELSE FileBytes(sortResourceInputsFile(file))

IsVariableBlock(n) == IsBlock(n) /\ n.type = <<"variable">>

NotVariableBlock(n) == ~IsVariableBlock(n)

\* the less function of formatter.go:151-156
varLess(bi, bj) ==
  IF Len(bi.labels) = 0 \/ Len(bj.labels) = 0 THEN FALSE
  ELSE StringLess(bi.labels[1], bj.labels[1])

\* sort.Slice(varBlocks, less): insertion sort, as above.
RECURSIVE SinkBlock(_, _)
SinkBlock(blocks, j) ==
  IF j > 1 /\ varLess(blocks[j], blocks[j - 1])
  THEN SinkBlock(Swap(blocks, j, j - 1), j - 1) ELSE blocks

RECURSIVE sortSlice(_, _)
sortSlice(blocks, i) ==
  IF i > Len(blocks) THEN blocks ELSE sortSlice(SinkBlock(blocks, i), i + 1)

\* formatter.go:159-166: AppendBlock for each block, AppendNewline between.
RECURSIVE AppendBlocks(_, _, _)
AppendBlocks(nodes, blocks, i) ==
  IF i > Len(blocks) THEN nodes
  ELSE AppendBlocks(nodes \o <<blocks[i]>>
                      \o (IF i < Len(blocks) THEN <<NewlineNode>> ELSE <<>>),
                    blocks, i + 1)

\* A variant of sortVariableBlocksFile that puts the blocks it does not
\* sort back in reverse order.
sortVariableBlocksFile_ReverseRest(file) ==
  LET varBlocks == SelectSeq(file.nodes, IsVariableBlock)
      removed == SelectSeq(file.nodes, NotVariableBlock)
      reversed == [i \in 1..Len(removed) |-> removed[Len(removed) + 1 - i]]
  IN  IF Len(varBlocks) > 1
      THEN [file EXCEPT !.nodes = AppendBlocks(reversed, sortSlice(varBlocks, 2), 1)]
      ELSE file

\* A variant of sortVariableBlocksFile that also rewrites a file with one
\* variable block.
sortVariableBlocksFile_MoveSingle(file) ==
  LET varBlocks == SelectSeq(file.nodes, IsVariableBlock)
      removed == SelectSeq(file.nodes, NotVariableBlock)
  IN  IF Len(varBlocks) > 0
      THEN [file EXCEPT !.nodes = AppendBlocks(removed, sortSlice(varBlocks, 2), 1)]
      ELSE file

sortVariableBlocksFile(file) ==
  LET varBlocks == SelectSeq(file.nodes, IsVariableBlock)
      removed == SelectSeq(file.nodes, NotVariableBlock)
  IN  IF Len(varBlocks) > 1
      THEN [file EXCEPT !.nodes = AppendBlocks(removed, sortSlice(varBlocks, 2), 1)]
      ELSE file

sortVariableBlocks(in) ==
  LET file == ParseConfig(in)
  IN  IF ~file.ok THEN in ELSE FileBytes(sortVariableBlocksFile(file))

(***************************************************************************)
(* The pipeline.                                                           *)
(***************************************************************************)

\* formatter.go:61-62, the delimiter normalizer
splitDelimiters(in) == reCloseBraceParenReplaceAll(reOpenParenBraceReplaceAll(in))

\* A variant of Preprocess that runs both sort transforms whatever the
\* configuration says.
Preprocess_AlwaysSort(c, in) ==
  sortVariableBlocks(sortResourceInputs(splitDelimiters(in)))

Preprocess(c, in) ==
  LET out == splitDelimiters(in)
      out1 == IF c.SortInputs THEN sortResourceInputs(out) ELSE out
  IN  IF c.SortVars THEN sortVariableBlocks(out1) ELSE out1

\* formatter.go:44-55, applied to the renderer's output
normalizeBlankLines(form) ==
  LET collapsed == reCollapseBlankReplaceAll(form)
      padded == rePadSingleReplaceAll(collapsed)
      spaced == reResourceBlocksReplaceAll(padded)
  IN  TrimRight(spaced) \o <<NL, NL>>

\* A variant of Format that calls the canonical renderer before
\* Preprocess.
Format_RenderFirst(c, in) == normalizeBlankLines(Preprocess(c, hclwriteFormat(in)))

Format(c, in) == normalizeBlankLines(hclwriteFormat(Preprocess(c, in)))

\* A variant of FormatFile that reports every file as changed.
FormatFile_AlwaysChanged(c, in) == [formatted |-> Format(c, in), changed |-> TRUE]

FormatFile(c, in) ==
  LET formatted_ == Format(c, in)
  IN  [formatted |-> formatted_, changed |-> formatted_ # in]

(***************************************************************************)
(* Inputs.  Raw texts are all symbol sequences up to MaxLen over the       *)
(* delimiters, whitespace, an identifier and the resource keyword.         *)
(* Group texts hold one parenthesized brace group.                         *)
(* Document texts are the token texts of small configuration trees: one    *)
(* block with up to MaxItems distinct body items, up to MaxBlocks distinct  *)
(* top-level pieces, or the labelled blocks in every order.  Unfinished    *)
(* texts are a block followed by the first word of the next one.           *)
(***************************************************************************)

MaxLen == 3
MaxItems == 3
MaxBlocks == 3
MaxPasses == 2

RawAlphabet == {NL, SP, "{", "}", "(", ")", "x", "resource"}

SeqsUpTo(S, n) == UNION {[1..m -> S] : m \in 0..n}

RawTexts == SeqsUpTo(RawAlphabet, MaxLen)

Attr(name, expr) == AttrNode(name, <<expr>>, TRUE)

NestedBlock ==
  BlockNode(<<"x">>, <<>>, "multi", <<Attr(<<"b">>, <<"x">>), Attr(<<"a">>, <<"Z">>)>>, TRUE)

ItemPool ==
  {Attr(<<"b">>, <<"x">>), Attr(<<"a">>, <<"Z">>), Attr(<<"Z">>, <<"a", "b">>),
   Attr(<<"a", "b">>, <<"b">>), NestedBlock}

Bodies ==
  {b \in SeqsUpTo(ItemPool, MaxItems) :
     \A i, j \in 1..Len(b) : i < j => b[i] # b[j]}

BlockDocs ==
  {<<BlockNode(<<t>>, <<<<"a">>>>, "multi", b, TRUE)>> :
     t \in {"resource", "x"}, b \in Bodies}

\* The pieces a top-level document is made of: a block, or two blank
\* lines.
TopPool ==
  {<<BlockNode(<<"variable">>, <<<<"b">>>>, "empty", <<>>, TRUE)>>,
   <<BlockNode(<<"variable">>, <<<<"Z">>>>, "multi", <<Attr(<<"b">>, <<"x">>)>>, TRUE)>>,
   <<BlockNode(<<"variable">>, <<>>, "empty", <<>>, TRUE)>>,
   <<BlockNode(<<"x">>, <<<<"a">>>>, "multi", <<NestedBlock>>, TRUE)>>,
   <<BlockNode(<<"resource">>, <<<<"a">>>>, "multi",
               <<Attr(<<"b">>, <<"x">>), Attr(<<"a">>, <<"Z">>)>>, TRUE)>>,
   <<NewlineNode, NewlineNode>>}

RECURSIVE Flatten(_)
Flatten(ss) == IF ss = <<>> THEN <<>> ELSE Head(ss) \o Flatten(Tail(ss))

TopDocs ==
  {Flatten(d) : d \in {p \in SeqsUpTo(TopPool, MaxBlocks) :
                         \A i, j \in 1..Len(p) : i < j => p[i] # p[j]}}

\* Files that mix variable blocks with blocks of other types, as in
\* TestSortVars: every order of the labelled blocks of TopPool.
MixedPool == {p \in TopPool : Len(p) = 1 /\ Len(p[1].labels) > 0}

MixedDocs ==
  {Flatten(d) : d \in {p \in [1..Cardinality(MixedPool) -> MixedPool] :
                         \A i, j \in DOMAIN p : i < j => p[i] # p[j]}}

\* The source text of a tree: its tokens, one space before each.
DocText(nodes) == TokensText(BuildTokens(nodes))

\* Texts with one parenthesized group, as in TestPreprocess: a({ b }) c
GroupSpace == {<<>>, <<SP>>, <<NL>>, <<SP, NL>>}

GroupTexts ==
  {<<"a", "(">> \o w1 \o <<"{">> \o m \o <<"}">> \o w2 \o <<")">> \o e :
     w1 \in GroupSpace, w2 \in GroupSpace,
     m \in {<<>>, <<SP, "b", SP>>}, e \in {<<>>, <<SP, "x">>}}

\* Files whose last line is unfinished: a labelled block of TopPool and
\* then the keyword resource, at the end of the file or with a newline or
\* a label after it.
UnfinishedTexts ==
  {DocText(p) \o <<"resource">> \o e :
     p \in MixedPool, e \in {<<>>, <<NL>>, <<SP, "a">>}}

Inputs ==
  RawTexts \cup GroupTexts \cup UnfinishedTexts
    \cup {DocText(d) : d \in BlockDocs \cup TopDocs \cup MixedDocs}

\* The flags Main binds to the configuration and processFile reads.
Configs == [SortInputs : BOOLEAN, SortVars : BOOLEAN, Write : BOOLEAN, Check : BOOLEAN]

(***************************************************************************)
(* The state machine: one file under one configuration.  ProcessFile is    *)
(* one run of processFile on the file: it reads the content, formats it    *)
(* (FormatFile) and writes a changed result back unless the flags forbid   *)
(* it.  The file can then be processed again.                              *)
(***************************************************************************)

Init ==
  /\ cfg \in Configs
  /\ content \in Inputs
  /\ orig = <<>>
  /\ src = <<>>
  /\ formatted = <<>>
  /\ changed = FALSE
  /\ passes = 0
  /\ paths = <<>>
  /\ fs = <<>>
  /\ walk = <<>>
  /\ root = ""
  /\ exit = 0
  /\ results = <<>>
  /\ done = FALSE
  /\ Idle

ProcessFile ==
  /\ passes < MaxPasses
  /\ orig' = content
  /\ src' = Preprocess(cfg, content)
  /\ \E r \in {FormatFile(cfg, content)} :
       /\ formatted' = r.formatted
       /\ changed' = r.changed
       /\ content' = IF cfg.Write /\ r.changed /\ ~cfg.Check
                     THEN r.formatted ELSE content
  /\ passes' = passes + 1
  /\ UNCHANGED <<cfg, mainVars, idleVars>>

Next == ProcessFile

Spec == Init /\ [][Next]_vars

(***************************************************************************)
(* A run of Main over a small file tree: the directory "." holds a.tf,     *)
(* b.tf, n.txt and the directory sub, which holds c.tf.  A file is its     *)
(* content and whether os.ReadFile can read it.  Main takes its path       *)
(* arguments one by one; for a directory it starts filepath.WalkDir, whose *)
(* callback is then called for the directory and its entries in lexical    *)
(* order.                                                                  *)
(***************************************************************************)

MaxArgs == 2

Dirs == {".", "sub"}

TfFiles == {"a.tf", "b.tf", "sub/c.tf"}

Files == TfFiles \cup {"n.txt"}

\* A test of the extension that every file passes.
IsTf_Any(p) == p \in Files

\* filepath.Ext(p) == ".tf"
IsTf(p) == p \in TfFiles

\* The paths WalkDir visits from a root when no directory is skipped.
WalkOrder(r) ==
  IF r = "." THEN <<".", "a.tf", "b.tf", "n.txt", "sub", "sub/c.tf">>
  ELSE <<"sub", "sub/c.tf">>

\* The path p lies below the directory d.
Below(p, d) == d = "sub" /\ p = "sub/c.tf"

\* A callback that never returns filepath.SkipDir.
SkipDir_Never(c, p, rt) == FALSE

\* walkDir's callback returns filepath.SkipDir for the directory p of the
\* walk from rt.
SkipDir(c, p, rt) == ~c.Recursive /\ p # rt

\* A path argument: a directory, a file, or a path os.Stat fails for.
ArgPool == {".", "sub", "a.tf", "b.tf", "n.txt", "missing.tf"}

\* A file in canonical form, and one that Format changes.
CleanText == <<"x", SP, "=", SP, "x", NL, NL>>

DirtyText == <<"x", "=", "x", NL>>

FileStates ==
  {[content |-> CleanText, readable |-> TRUE],
   [content |-> DirtyText, readable |-> TRUE],
   [content |-> DirtyText, readable |-> FALSE]}

FileSystems ==
  {f \in [Files -> FileStates] : f["n.txt"].readable /\ f["sub/c.tf"].readable}

\* The flags of Main that the run depends on.
MainConfigs ==
  [SortInputs : {FALSE}, SortVars : {FALSE}, Write : BOOLEAN, Check : BOOLEAN,
   Recursive : BOOLEAN]

\* The write of processFile without the test of cfg.Check.
writeResult_IgnoreCheck(c, file, r) ==
  [changed |-> r.changed, err |-> FALSE,
   content |-> IF c.Write /\ r.changed THEN r.formatted ELSE file.content]

\* main_test.go:573-590: what processFile returns for the result r of
\* FormatFile, and the content the file has afterwards.
writeResult(c, file, r) ==
  [changed |-> r.changed, err |-> FALSE,
   content |-> IF c.Write /\ r.changed /\ ~c.Check THEN r.formatted ELSE file.content]

\* processFile on one file: the error of os.ReadFile, or the result of
\* FormatFile and of the write that follows it.
processFile(c, file) ==
  IF ~file.readable
  THEN [changed |-> FALSE, err |-> TRUE, content |-> file.content]
  ELSE writeResult(c, file, FormatFile(c, file.content))

\* handleResult without the test *exit == 0: a changed file under check
\* sets 3 whatever the code was.
handleResult_NoDominance(c, chg, err, code) ==
  IF err THEN 1
  ELSE IF chg /\ c.Check THEN 3
  ELSE code

\* handleResult: the value it leaves in *exit.
handleResult(c, chg, err, code) ==
  IF err THEN 1
  ELSE IF chg /\ c.Check /\ code = 0 THEN 3
  ELSE code

Result(p, via, r) == [path |-> p, via |-> via, changed |-> r.changed, err |-> r.err]

MainInit ==
  /\ cfg \in MainConfigs
  /\ content = <<>>
  /\ orig = <<>>
  /\ src = <<>>
  /\ formatted = <<>>
  /\ changed = FALSE
  /\ passes = 0
  /\ \E a \in SeqsUpTo(ArgPool, MaxArgs) :
       paths = IF Len(a) = 0 THEN <<".">> ELSE a
  /\ fs \in FileSystems
  /\ walk = <<>>
  /\ root = ""
  /\ exit = 0
  /\ results = <<>>
  /\ done = FALSE
  /\ Idle

\* One iteration of the loop of Main over the paths, up to the call of
\* walkDir for a directory.
MainPath ==
  /\ ~done /\ walk = <<>> /\ paths # <<>>
  /\ paths' = Tail(paths)
  /\ \E p \in {Head(paths)} :
       IF p \notin Dirs \cup Files
       THEN /\ exit' = 1
            /\ results' = Append(results,
                             [path |-> p, via |-> "stat", changed |-> FALSE, err |-> TRUE])
            /\ UNCHANGED <<fs, walk, root>>
       ELSE IF p \in Dirs
       THEN /\ walk' = WalkOrder(p)
            /\ root' = p
            /\ UNCHANGED <<fs, exit, results>>
       ELSE IF IsTf(p)
       THEN \E r \in {processFile(cfg, fs[p])} :
              /\ fs' = [fs EXCEPT ![p].content = r.content]
              /\ exit' = handleResult(cfg, r.changed, r.err, exit)
              /\ results' = Append(results, Result(p, "arg", r))
              /\ UNCHANGED <<walk, root>>
       ELSE UNCHANGED <<fs, walk, root, exit, results>>
  /\ UNCHANGED <<cfg, fileVars, done, idleVars>>

\* One call of walkDir's callback, for the next path of the walk.  An
\* error ends the walk and Main sets exit to 1; for a file without error
\* handleResult is given a new int, so exit keeps its value.
WalkStep ==
  /\ ~done /\ walk # <<>>
  /\ \E p \in {Head(walk)} :
       IF p \in Dirs
       THEN /\ walk' = IF SkipDir(cfg, p, root)
                       THEN SelectSeq(Tail(walk), LAMBDA q : ~Below(q, p))
                       ELSE Tail(walk)
            /\ UNCHANGED <<fs, exit, results>>
       ELSE IF IsTf(p)
       THEN \E r \in {processFile(cfg, fs[p])} :
              /\ fs' = [fs EXCEPT ![p].content = r.content]
              /\ results' = Append(results, Result(p, "walk", r))
              /\ walk' = IF r.err THEN <<>> ELSE Tail(walk)
              /\ exit' = IF r.err THEN 1 ELSE exit
       ELSE /\ walk' = Tail(walk)
            /\ UNCHANGED <<fs, exit, results>>
  /\ UNCHANGED <<cfg, fileVars, paths, root, done, idleVars>>

\* os.Exit(exit)
MainExit ==
  /\ ~done /\ walk = <<>> /\ paths = <<>>
  /\ done' = TRUE
  /\ UNCHANGED <<cfg, fileVars, paths, fs, walk, root, exit, results, idleVars>>

MainNext == MainPath \/ WalkStep \/ MainExit

MainSpec == MainInit /\ [][MainNext]_vars

(***************************************************************************)
(* The configuration of a run (the config package): NewConfig gives the    *)
(* defaults, the flag package overwrites the fields of the flags passed on *)
(* the command line, and ApplySettings then applies the settings file.  A  *)
(* field of Settings is a *bool: Nil when the file does not name the key,  *)
(* and else a pointer to one value.                                        *)
(***************************************************************************)

Nil == <<>>

OptBool == {Nil, <<TRUE>>, <<FALSE>>}

\* The fields of Settings, and the name of the flag of each field.
SettingsKeys == {"Write", "Check", "List", "Diff", "Recursive"}

ConfigFields == SettingsKeys \cup {"Test"}

FlagName(k) ==
  CASE k = "Write" -> "write"
    [] k = "Check" -> "check"
    [] k = "List" -> "list"
    [] k = "Diff" -> "diff"
    [] k = "Recursive" -> "recursive"
    [] k = "Test" -> "test"

NewConfig ==
  [Write |-> TRUE, Check |-> FALSE, List |-> TRUE, Diff |-> FALSE,
   Recursive |-> FALSE, Test |-> FALSE]

\* ApplySettings with the settings file winning over the command line.
ApplySettings_IgnorePassed(c, s, passed) ==
  [c EXCEPT !.Write = IF s.Write # Nil THEN s.Write[1] ELSE @,
            !.Check = IF s.Check # Nil THEN s.Check[1] ELSE @,
            !.List = IF s.List # Nil THEN s.List[1] ELSE @,
            !.Diff = IF s.Diff # Nil THEN s.Diff[1] ELSE @,
            !.Recursive = IF s.Recursive # Nil THEN s.Recursive[1] ELSE @]

ApplySettings(c, s, passed) ==
  [c EXCEPT !.Write = IF s.Write # Nil /\ "write" \notin passed THEN s.Write[1] ELSE @,
            !.Check = IF s.Check # Nil /\ "check" \notin passed THEN s.Check[1] ELSE @,
            !.List = IF s.List # Nil /\ "list" \notin passed THEN s.List[1] ELSE @,
            !.Diff = IF s.Diff # Nil /\ "diff" \notin passed THEN s.Diff[1] ELSE @,
            !.Recursive =
               IF s.Recursive # Nil /\ "recursive" \notin passed
               THEN s.Recursive[1] ELSE @]

\* Main up to the call of ApplySettings: each flag is absent from the
\* command line or passed with a value, and the settings file names each
\* key or not.
SettingsInit ==
  /\ \E fl \in [ConfigFields -> OptBool] :
       /\ cfg = [k \in ConfigFields |-> IF fl[k] = Nil THEN NewConfig[k] ELSE fl[k][1]]
       /\ passedFlags = {FlagName(k) : k \in {f \in ConfigFields : fl[f] # Nil}}
  /\ settings \in [SettingsKeys -> OptBool]
  /\ prior = <<>>
  /\ content = <<>>
  /\ orig = <<>>
  /\ src = <<>>
  /\ formatted = <<>>
  /\ changed = FALSE
  /\ passes = 0
  /\ paths = <<>>
  /\ fs = <<>>
  /\ walk = <<>>
  /\ root = ""
  /\ exit = 0
  /\ results = <<>>
  /\ done = FALSE
  /\ heap = <<>>
  /\ slice = <<>>
  /\ pc = ""

\* config.ApplySettings(cfg, settings, passedFlags)
ApplySettingsCall ==
  /\ prior = <<>>
  /\ prior' = <<cfg>>
  /\ cfg' = ApplySettings(cfg, settings, passedFlags)
  /\ UNCHANGED <<settings, passedFlags, fileVars, mainVars, memVars>>

SettingsNext == ApplySettingsCall

SettingsSpec == SettingsInit /\ [][SettingsNext]_vars

(***************************************************************************)
(* One call of Format with its byte slices.  heap is the sequence of the   *)
(* byte arrays that exist; heap[1] is the array of the caller's content.   *)
(* A []byte is a slice: an array and a length (every slice of Format       *)
(* starts at offset 0).  regexp.ReplaceAll builds its result by appending  *)
(* to a nil slice, and hclwrite.Format and File.Bytes write into a new     *)
(* bytes.Buffer, so each returns a slice of a new array; a sort transform  *)
(* returns its argument on a parse error; bytes.TrimRight returns a        *)
(* shorter slice of the same array; append writes into the array of its    *)
(* argument when the capacity allows it.                                   *)
(***************************************************************************)

Bytes(h, s) == SubSeq(h[s.arr], 1, s.len)

\* A stage that builds its result in the array allocated last, its
\* argument's, and not in a new one.
NewArray_Reuse(h, bytes) ==
  [heap |-> [h EXCEPT ![Len(h)] = bytes],
   slice |-> [arr |-> Len(h), len |-> Len(bytes)]]

\* The heap and the slice after a stage has built bytes in a new array.
NewArray(h, bytes) ==
  [heap |-> Append(h, bytes),
   slice |-> [arr |-> Len(h) + 1, len |-> Len(bytes)]]

\* formatter.go:78-124 and 127-171 on a slice: the argument on a parse
\* error, else the bytes of the rewritten file in a new array.
sortResourceInputsSlice(m) ==
  IF ~ParseConfig(Bytes(m.heap, m.slice)).ok THEN m
  ELSE NewArray(m.heap, sortResourceInputs(Bytes(m.heap, m.slice)))

sortVariableBlocksSlice(m) ==
  IF ~ParseConfig(Bytes(m.heap, m.slice)).ok THEN m
  ELSE NewArray(m.heap, sortVariableBlocks(Bytes(m.heap, m.slice)))

splitDelimitersSlice(m) ==
  NewArray(NewArray(m.heap, reOpenParenBraceReplaceAll(Bytes(m.heap, m.slice))).heap,
           splitDelimiters(Bytes(m.heap, m.slice)))

sortInputsIfSet(c, m) == IF c.SortInputs THEN sortResourceInputsSlice(m) ELSE m

sortVarsIfSet(c, m) == IF c.SortVars THEN sortVariableBlocksSlice(m) ELSE m

PreprocessSlice(c, m) == sortVarsIfSet(c, sortInputsIfSet(c, splitDelimitersSlice(m)))

\* formatter.go:42
renderSlice(m) == NewArray(m.heap, hclwriteFormat(Bytes(m.heap, m.slice)))

\* formatter.go:45-49: three calls of ReplaceAll
blankLinesSlice(m) ==
  NewArray(
    NewArray(
      NewArray(m.heap, reCollapseBlankReplaceAll(Bytes(m.heap, m.slice))).heap,
      rePadSingleReplaceAll(reCollapseBlankReplaceAll(Bytes(m.heap, m.slice)))).heap,
    reResourceBlocksReplaceAll(
      rePadSingleReplaceAll(reCollapseBlankReplaceAll(Bytes(m.heap, m.slice)))))

\* formatter.go:52: a slice of the same array
trimSlice(m) ==
  [heap |-> m.heap,
   slice |-> [arr |-> m.slice.arr, len |-> Len(TrimRight(Bytes(m.heap, m.slice)))]]

\* formatter.go:53: append(form, NL, NL) writes behind the slice when the
\* array has room for two more bytes, and copies to a new array otherwise.
appendSlice(m) ==
  IF m.slice.len + 2 <= Len(m.heap[m.slice.arr])
  THEN [heap |-> [m.heap EXCEPT ![m.slice.arr] =
                    [i \in 1..Len(@) |->
                       IF i \in {m.slice.len + 1, m.slice.len + 2} THEN NL ELSE @[i]]],
        slice |-> [arr |-> m.slice.arr, len |-> m.slice.len + 2]]
  ELSE NewArray(m.heap, Bytes(m.heap, m.slice) \o <<NL, NL>>)

\* The configuration of a Formatter.
FormatConfigs == [SortInputs : BOOLEAN, SortVars : BOOLEAN]

\* The call Format(content): content is what the caller's bytes are at
\* the call, and the slice passed is the whole of the caller's array.
MemInit ==
  /\ cfg \in FormatConfigs
  /\ content \in Inputs
  /\ heap = <<content>>
  /\ slice = [arr |-> 1, len |-> Len(content)]
  /\ pc = "Preprocess"
  /\ orig = <<>>
  /\ src = <<>>
  /\ formatted = <<>>
  /\ changed = FALSE
  /\ passes = 0
  /\ paths = <<>>
  /\ fs = <<>>
  /\ walk = <<>>
  /\ root = ""
  /\ exit = 0
  /\ results = <<>>
  /\ done = FALSE
  /\ settings = <<>>
  /\ passedFlags = {}
  /\ prior = <<>>

MemStep(m, next) ==
  /\ heap' = m.heap
  /\ slice' = m.slice
  /\ pc' = next
  /\ UNCHANGED <<cfg, fileVars, mainVars, settingsVars>>

\* src := f.Preprocess(content)
MemPreprocess ==
  /\ pc = "Preprocess"
  /\ \E m \in {PreprocessSlice(cfg, [heap |-> heap, slice |-> slice])} :
       MemStep(m, "Render")

\* form := hclwrite.Format(src)
MemRender ==
  /\ pc = "Render"
  /\ \E m \in {renderSlice([heap |-> heap, slice |-> slice])} : MemStep(m, "BlankLines")

MemBlankLines ==
  /\ pc = "BlankLines"
  /\ \E m \in {blankLinesSlice([heap |-> heap, slice |-> slice])} : MemStep(m, "Trim")

\* form = bytes.TrimRight(form, "\n")
MemTrim ==
  /\ pc = "Trim"
  /\ \E m \in {trimSlice([heap |-> heap, slice |-> slice])} : MemStep(m, "Append")

\* form = append(form, NL, NL); return form
MemAppend ==
  /\ pc = "Append"
  /\ \E m \in {appendSlice([heap |-> heap, slice |-> slice])} : MemStep(m, "Return")

MemNext == MemPreprocess \/ MemRender \/ MemBlankLines \/ MemTrim \/ MemAppend

MemSpec == MemInit /\ [][MemNext]_vars

(***************************************************************************)
(* Properties.                                                             *)
(***************************************************************************)

\* processFile has run: orig holds the bytes it read, src and formatted
\* what Preprocess and Format made of them.
Formatted == passes > 0

\* i starts a closing brace, one newline, and then a byte that is no newline
SinglePadAt(s, i) ==
  /\ i + 2 <= Len(s)
  /\ s[i] = "}" /\ s[i + 1] = NL /\ s[i + 2] # NL

HasTripleNewline(s) ==
  \E i \in 1..Len(s) : i + 2 <= Len(s) /\ s[i] = NL /\ s[i + 1] = NL /\ s[i + 2] = NL

\* C1: Format is idempotent: formatting a file whose content is itself an
\* output of Format under the same configuration (the file a previous run
\* left) gives that content back.
C1_FormatIdempotent ==
  (passes >= 2 /\ cfg.Write /\ ~cfg.Check) => formatted = orig

\* C2: every output of Format ends with exactly two newlines: its last two
\* bytes are newlines and, if it is longer, the byte before them is not.
C2_TwoTrailingNewlines ==
  Formatted =>
    /\ Len(formatted) >= 2
    /\ formatted[Len(formatted)] = NL
    /\ formatted[Len(formatted) - 1] = NL
    /\ Len(formatted) > 2 => formatted[Len(formatted) - 2] # NL

\* C2 witness: an input that ends with three or more newlines after other
\* bytes has been formatted.
C2_Witness ==
  /\ Formatted
  /\ Len(orig) > 3
  /\ \A i \in (Len(orig) - 2)..Len(orig) : orig[i] = NL
  /\ \E i \in 1..Len(orig) : orig[i] \notin {NL, SP}

\* C3: no output of Format holds a run of three or more newlines.
C3_NoTripleNewline ==
  Formatted => ~HasTripleNewline(formatted)

\* C3 witness: an input with a run of three newlines between two blocks
\* has been formatted, and the output still holds both blocks.
C3_Witness ==
  /\ Formatted
  /\ \E i \in 1..Len(orig) :
       /\ i + 4 <= Len(orig)
       /\ orig[i] = "}"
       /\ \A j \in (i + 1)..(i + 3) : orig[j] = NL
       /\ orig[i + 4] # NL
  /\ \E i \in 1..Len(formatted) :
       /\ i + 3 <= Len(formatted)
       /\ formatted[i] = "}" /\ formatted[i + 1] = NL /\ formatted[i + 2] = NL
       /\ formatted[i + 3] # NL

\* C4: in every output of Format no closing brace is followed by exactly
\* one newline and then a byte that is no newline.
C4_BlankLineAfterBrace ==
  Formatted => \A i \in 1..Len(formatted) : ~SinglePadAt(formatted, i)

\* C5: FormatFile(S) returns Format(S), and changed = FALSE exactly when
\* the returned bytes equal S.
C5_ChangeDetection ==
  [](Formatted =>
       /\ formatted = Format(cfg, orig)
       /\ (changed = FALSE) <=> (formatted = orig))

\* C5 witness: FormatFile has returned changed = FALSE for a non-empty
\* file that no earlier run wrote.
C5_Witness ==
  passes = 1 /\ ~changed /\ Len(orig) > 2

SortsDisabled == ~cfg.SortInputs /\ ~cfg.SortVars

\* The byte at i opens a group with the next byte that is no whitespace:
\* "(" before "{", or "}" before ")".
GroupAt(s, i) ==
  LET j == SkipSpace(s, i + 1)
  IN  /\ j <= Len(s)
      /\ \/ s[i] = "(" /\ s[j] = "{"
         \/ s[i] = "}" /\ s[j] = ")"

RECURSIVE LastNonSpace(_, _)
LastNonSpace(s, k) ==
  IF k >= 1 /\ IsSpace(s[k]) THEN LastNonSpace(s, k - 1) ELSE k

\* The byte at k is whitespace between the two delimiters of a group.
InGroupGap(s, k) ==
  /\ IsSpace(s[k])
  /\ LastNonSpace(s, k) >= 1
  /\ GroupAt(s, LastNonSpace(s, k))

\* s without the whitespace inside its groups
OutsideGaps(s) ==
  Concat([k \in 1..Len(s) |-> IF InGroupGap(s, k) THEN <<>> ELSE <<s[k]>>])

NoGroups(s) == \A i \in 1..Len(s) : ~GroupAt(s, i)

\* C6: with both sort options disabled, in the result of Preprocess the
\* two delimiters of every group are separated by exactly one newline,
\* and every byte outside the groups' whitespace is unchanged and in
\* place.
C6_DelimitersSplit ==
  (Formatted /\ SortsDisabled) =>
    /\ \A i \in 1..Len(src) :
         GroupAt(src, i) => (src[i + 1] = NL /\ SkipSpace(src, i + 1) = i + 2)
    /\ OutsideGaps(src) = OutsideGaps(orig)

\* C6 witness: Preprocess has rewritten an input that holds an opening and
\* a closing group, neither of them already split by one newline.
C6_Witness ==
  /\ Formatted /\ SortsDisabled
  /\ \E i, j \in 1..Len(orig) :
       /\ orig[i] = "(" /\ GroupAt(orig, i) /\ orig[i + 1] # NL
       /\ orig[j] = "}" /\ GroupAt(orig, j) /\ orig[j + 1] = SP
  /\ src # orig

\* C7: with both sort options disabled, Preprocess returns an input that
\* holds no group unchanged.
C7_IdentityWithoutGroups ==
  (Formatted /\ SortsDisabled /\ NoGroups(orig)) => src = orig

\* C7 witness: Preprocess has run on an input that holds parentheses and
\* braces but no group.
C7_Witness ==
  /\ Formatted /\ SortsDisabled /\ NoGroups(orig)
  /\ \E i, j, k \in 1..Len(orig) :
       orig[i] = "(" /\ orig[j] = "}" /\ orig[k] \in {"{", ")"}

IsResourceBlock(n) == IsBlock(n) /\ n.type = <<"resource">>

AscendingNames(body) ==
  LET as == Attributes(body)
  IN  \A i \in 1..(Len(as) - 1) : StringLess(as[i].name, as[i + 1].name)

\* The input of the sort transforms and what it parses to.
SortInput == ParseConfig(splitDelimiters(orig))
SortOutput == ParseConfig(src)

\* C8: when sort-inputs is enabled and the input parses, the attributes of
\* every top-level resource block of the result are in ascending
\* byte-wise order of their names.
C8_AttributesAscending ==
  (Formatted /\ cfg.SortInputs /\ SortInput.ok) =>
    LET out == SortOutput
    IN  /\ out.ok
        /\ \A i \in 1..Len(out.nodes) :
             IsResourceBlock(out.nodes[i]) => AscendingNames(out.nodes[i].body)

\* C8 witness: the attribute sorter has run on a resource block with three
\* attributes that were not in ascending order.
C8_Witness ==
  /\ Formatted /\ cfg.SortInputs /\ SortInput.ok
  /\ \E i \in 1..Len(SortInput.nodes) :
       /\ IsResourceBlock(SortInput.nodes[i])
       /\ Len(Attributes(SortInput.nodes[i].body)) >= 3
       /\ ~AscendingNames(SortInput.nodes[i].body)

BagOfSeq(seq) ==
  [x \in {seq[i] : i \in 1..Len(seq)} |->
     Cardinality({i \in 1..Len(seq) : seq[i] = x})]

\* A block without the order of its attributes: its type, its labels, the
\* multiset of its (name, expression) pairs and its nested blocks.
RECURSIVE BlocksContent(_)
BlocksContent(nodes) ==
  IF nodes = <<>> THEN <<>>
  ELSE IF IsBlock(Head(nodes))
  THEN LET b == Head(nodes)
           as == Attributes(b.body)
       IN  <<[type |-> b.type, labels |-> b.labels,
              attrs |-> BagOfSeq([i \in 1..Len(as) |-> <<as[i].name, as[i].expr>>]),
              blocks |-> BlocksContent(b.body)]>>
             \o BlocksContent(Tail(nodes))
  ELSE BlocksContent(Tail(nodes))

TopLevelBlocks(file) == BagOfSeq(BlocksContent(file.nodes))

\* C9: for every parsable input and every sort configuration, the sort
\* transforms keep the multiset of top-level blocks, each with its
\* multiset of (attribute name, value expression) pairs.
C9_SortPreservesContent ==
  (Formatted /\ SortInput.ok) =>
    /\ SortOutput.ok
    /\ TopLevelBlocks(SortOutput) = TopLevelBlocks(SortInput)

\* C9 witness: both sort transforms have run on a file with a resource
\* block whose attributes were out of order and two variable blocks, and
\* the order of the top-level blocks has changed.
C9_Witness ==
  /\ Formatted /\ cfg.SortInputs /\ cfg.SortVars /\ SortInput.ok
  /\ \E i \in 1..Len(SortInput.nodes) :
       IsResourceBlock(SortInput.nodes[i]) /\ ~AscendingNames(SortInput.nodes[i].body)
  /\ Len(SelectSeq(SortInput.nodes, IsVariableBlock)) >= 2
  /\ SelectSeq(SortOutput.nodes, IsVariableBlock)
       # SelectSeq(SortInput.nodes, IsVariableBlock)

\* C10: after the attribute sorter has rewritten a resource block, no
\* nested block of its body stands before an attribute.
C10_AttributesBeforeBlocks ==
  (Formatted /\ cfg.SortInputs /\ SortInput.ok) =>
    LET out == SortOutput
    IN  \A n \in 1..Len(out.nodes) :
          IsResourceBlock(out.nodes[n]) =>
            LET body == out.nodes[n].body
            IN  \A i, j \in 1..Len(body) :
                  i < j => ~(IsBlock(body[i]) /\ IsAttr(body[j]))

(***************************************************************************)
(* The block sorter.                                                       *)
(***************************************************************************)

\* The bytes Preprocess hands to sortVariableBlocks (formatter.go:61-71)
\* and what they parse to.
BlockSortBytes ==
  IF cfg.SortInputs THEN sortResourceInputs(splitDelimiters(orig))
  ELSE splitDelimiters(orig)

BlockSortInput == ParseConfig(BlockSortBytes)

VariableBlocks(file) == SelectSeq(file.nodes, IsVariableBlock)

HasLabel(n) == Len(n.labels) > 0

\* no block of the sequence has a first label smaller than its
\* predecessor's
AscendingLabels(blocks) ==
  \A i \in 1..(Len(blocks) - 1) :
    ~StringLess(blocks[i + 1].labels[1], blocks[i].labels[1])

\* C11: when sort-vars is enabled and the input parses, the top-level
\* variable blocks of the result that have a label are in ascending
\* byte-wise order of their first label, also when variable blocks without
\* labels stand among them.
C11_VariablesAscending ==
  (Formatted /\ cfg.SortVars /\ BlockSortInput.ok) =>
    LET out == SortOutput
    IN  /\ out.ok
        /\ AscendingLabels(SelectSeq(VariableBlocks(out), HasLabel))

TopBlocks(file) == SelectSeq(file.nodes, IsBlock)

\* The number of top-level blocks that stand after the last variable block.
BlocksAfterVariables(file) ==
  LET blocks == TopBlocks(file)
      vs == {i \in 1..Len(blocks) : IsVariableBlock(blocks[i])}
  IN  IF vs = {} THEN 0 ELSE Len(blocks) - Max(vs)

\* C12: the blocks of other types that followed the variable blocks in the
\* input of the block sorter still follow them in its result.
C12_InsertedAtFirstPosition ==
  (Formatted /\ cfg.SortVars /\ BlockSortInput.ok) =>
    LET out == SortOutput
    IN  /\ out.ok
        /\ BlocksAfterVariables(out) = BlocksAfterVariables(BlockSortInput)

OtherBlocks(file) == SelectSeq(TopBlocks(file), NotVariableBlock)

\* C13: the subsequence of the top-level blocks whose type is not variable
\* is the same before and after sortVariableBlocks.
C13_OtherBlocksKeepOrder ==
  (Formatted /\ cfg.SortVars) =>
    LET in == BlockSortInput
        out == SortOutput
    IN  in.ok => (out.ok /\ OtherBlocks(out) = OtherBlocks(in))

\* C13 witness: the block sorter has moved variable blocks in a file with
\* two blocks of other types, one of them between the variable blocks.
C13_Witness ==
  /\ Formatted /\ cfg.SortVars /\ BlockSortInput.ok
  /\ Len(OtherBlocks(BlockSortInput)) >= 2
  /\ LET blocks == TopBlocks(BlockSortInput)
     IN  \E i, j, k \in 1..Len(blocks) :
           /\ i < j /\ j < k
           /\ IsVariableBlock(blocks[i]) /\ ~IsVariableBlock(blocks[j])
           /\ IsVariableBlock(blocks[k])
  /\ TopBlocks(SortOutput) # TopBlocks(BlockSortInput)

SortedVariables(file) ==
  LET vs == VariableBlocks(file)
  IN  /\ Len(vs) >= 2
      /\ (\A i \in 1..Len(vs) : HasLabel(vs[i]))
      /\ AscendingLabels(vs)

C15_SortedInputUnchanged ==
  (Formatted /\ cfg.SortVars /\ BlockSortInput.ok /\ SortedVariables(BlockSortInput)) =>
    src = BlockSortBytes

\* C16: when the input cannot be parsed, the sort transforms that are
\* enabled return their input: the result of Preprocess is the result of
\* the delimiter normalizer.
C16_UnparsableIsNoOp ==
  (Formatted /\ (cfg.SortInputs \/ cfg.SortVars) /\ ~SortInput.ok) =>
    src = splitDelimiters(orig)

\* C16 witness: both sort transforms have run on an input that holds a
\* block opening but does not parse.
C16_Witness ==
  /\ Formatted /\ cfg.SortInputs /\ cfg.SortVars /\ ~SortInput.ok
  /\ \E i \in 1..Len(orig) : orig[i] = "{"
  /\ \E i \in 1..Len(orig) : orig[i] \in WordSyms

(***************************************************************************)
(* The orchestrator.                                                       *)
(***************************************************************************)

\* C17: processing a file whose content does not parse leaves the content
\* of the file as it was.
C17_InvalidInputUntouched ==
  (Formatted /\ ~ParseConfig(orig).ok) => content = orig

\* The stages of Format on the bytes processFile read: the delimiter
\* normalizer, the attribute sorter (BlockSortBytes) and the block sorter,
\* each applied to the result of the one before; then the canonical
\* renderer applied to the result of Preprocess, the blank-line
\* normalizer and the trailing-newline fixup.
DelimiterStage == splitDelimiters(orig)

BlockStage ==
  LET bytes == BlockSortBytes
  IN  IF cfg.SortVars THEN sortVariableBlocks(bytes) ELSE bytes

RenderStage == hclwriteFormat(src)

BlankLineStage ==
  reResourceBlocksReplaceAll(rePadSingleReplaceAll(reCollapseBlankReplaceAll(RenderStage)))

TrailingStage == TrimRight(BlankLineStage) \o <<NL, NL>>

\* C18: Format applies its stages in the fixed order delimiter
\* normalization, attribute sort (if enabled), block sort (if enabled),
\* canonical rendering, blank-line normalization, trailing-newline fixup:
\* the result of Preprocess is the block sorter's stage, and the result of
\* Format is the renderer and the two fixups applied to it.
C18_StageOrder ==
  [](Formatted => (src = BlockStage /\ formatted = TrailingStage))

\* C18 witness: Format has run with both sort options on a file that each
\* of the two sort transforms and the blank-line normalizer rewrote.
C18_Witness ==
  /\ Formatted /\ cfg.SortInputs /\ cfg.SortVars /\ SortInput.ok
  /\ TopBlocks(BlockSortInput) # TopBlocks(SortInput)
  /\ TopBlocks(SortOutput) # TopBlocks(BlockSortInput)
  /\ BlankLineStage # RenderStage

\* The attributes and blocks of a body in order, without its blank lines.
RECURSIVE Skeleton(_)
Skeleton(nodes) ==
  IF nodes = <<>> THEN <<>>
  ELSE LET n == Head(nodes)
       IN  (CASE n.k = "nl" -> <<>>
              [] n.k = "attr" -> <<<<"attr", n.name, n.expr>>>>
              [] n.k = "block" -> <<<<"block", n.type, n.labels, Skeleton(n.body)>>>>)
             \o Skeleton(Tail(nodes))

\* C19: with both sort options disabled, the result of Preprocess is the
\* result of the delimiter normalizer, and the output of Format for an
\* input that parses holds the same top-level blocks in the same order,
\* each with its attributes and nested blocks in the same order.
C19_NoSortWhenDisabled ==
  (Formatted /\ SortsDisabled) =>
    /\ src = splitDelimiters(orig)
    /\ ParseConfig(orig).ok =>
         LET out == ParseConfig(formatted)
         IN  out.ok /\ Skeleton(out.nodes) = Skeleton(ParseConfig(orig).nodes)

\* C19 witness: Format has run with both sort options disabled on a file
\* with a resource block whose attributes are out of order and variable
\* blocks that are out of order.
C19_Witness ==
  /\ Formatted /\ SortsDisabled /\ SortInput.ok
  /\ \E i \in 1..Len(SortInput.nodes) :
       IsResourceBlock(SortInput.nodes[i]) /\ ~AscendingNames(SortInput.nodes[i].body)
  /\ Len(VariableBlocks(SortInput)) >= 2
  /\ (\A i \in 1..Len(VariableBlocks(SortInput)) : HasLabel(VariableBlocks(SortInput)[i]))
  /\ ~AscendingLabels(VariableBlocks(SortInput))

\* C20: when check is set, no error occurred and at least one processed
\* file differed from its formatted form, Main exits with code 3, whether
\* the file was a path argument or was reached through a directory.
C20_CheckExitCode ==
  (/\ done /\ cfg.Check
   /\ \A i \in 1..Len(results) : ~results[i].err
   /\ \E i \in 1..Len(results) : results[i].changed) => exit = 3

\* Some result of the run is an error (of os.Stat or of processFile).
SomeError == \E i \in 1..Len(results) : results[i].err

\* Some processed file differed from its formatted form.
SomeChanged == \E i \in 1..Len(results) : results[i].changed

\* C21: at every point of a run the exit code is 0, 1 or 3; it is 1 exactly
\* when some result so far was an error, so an error sets 1 and no later
\* result replaces it; it is 3 only under check with a differing file and
\* no error; otherwise it is 0.
C21_ErrorDominates ==
  /\ exit \in {0, 1, 3}
  /\ SomeError <=> exit = 1
  /\ exit = 3 => (cfg.Check /\ SomeChanged)
  /\ (~SomeError /\ (~cfg.Check \/ ~SomeChanged)) => exit = 0

\* C21 witness: under check a path argument differed (which set 3), a later
\* result was an error, and the run ended.
C21_Witness ==
  /\ done /\ cfg.Check /\ exit = 1
  /\ \E i, j \in 1..Len(results) :
       /\ i < j
       /\ results[i].changed /\ results[i].via = "arg"
       /\ results[j].err

\* The step calls processFile on the file p: it adds a result of p that
\* does not come from os.Stat.
Processes(p) ==
  /\ Len(results') = Len(results) + 1
  /\ results'[Len(results')].path = p
  /\ results'[Len(results')].via # "stat"

FollowingInWalk(p) ==
  LET order == WalkOrder(".")
      at == CHOOSE i \in 1..Len(order) : order[i] = p
  IN  {order[k] : k \in {n \in (at + 1)..Len(order) :
                            /\ IsTf(order[n])
                            /\ cfg.Recursive \/ ~Below(order[n], "sub")}}

\* C23: when the run has ended, every .tf file that followed a failing
\* file in its directory walk has been processed after the failure.
C23_ErrorAbortsOneFile ==
  done =>
    \A i \in 1..Len(results) :
      (results[i].err /\ results[i].via = "walk") =>
        \A q \in FollowingInWalk(results[i].path) :
          \E j \in 1..Len(results) : j > i /\ results[j].path = q

\* The .tf files in the tree of the directory r, and those directly in it.
WalkFiles(r) == {q \in TfFiles : \E k \in 1..Len(WalkOrder(r)) : WalkOrder(r)[k] = q}

DirectFiles(r) == {q \in WalkFiles(r) : \A d \in Dirs \ {r} : ~Below(q, d)}

\* The files a walk from the directory r has to process.
Expected(r) == IF cfg.Recursive THEN WalkFiles(r) ELSE DirectFiles(r)

\* Some file of a directory walk could not be read.
SomeWalkError == \E i \in 1..Len(results) : results[i].err /\ results[i].via = "walk"

OtherFiles == Files \ TfFiles

\* C26: no file with another extension than .tf is ever processed or
\* written, in a directory walk or as a path argument, and the step of Main
\* for a path argument that names such a file leaves the exit code and the
\* results as they are.
C26_OnlyTfFiles ==
  /\ [](\A i \in 1..Len(results) : results[i].path \notin OtherFiles)
  /\ [][/\ \A p \in OtherFiles : fs'[p] = fs[p]
        /\ (~done /\ walk = <<>> /\ paths # <<>> /\ Head(paths) \in OtherFiles) =>
             (exit' = exit /\ results' = results /\ walk' = walk)]_vars

\* C26 witness: every path argument of the run named n.txt, which differs
\* from its formatted form; with write set the run ended without a result
\* and n.txt is as it was.
C26_Witness ==
  /\ done /\ root = "" /\ results = <<>>
  /\ cfg.Write /\ ~cfg.Check
  /\ fs["n.txt"].content = DirtyText

\* C24: after ApplySettings each field that has a settings key holds the
\* value of the settings file if the file names the key and the flag was
\* not passed on the command line, and its value from before the call
\* otherwise; the field without a settings key keeps its value.
C24_ApplySettings ==
  prior # <<>> =>
    /\ DOMAIN cfg = DOMAIN prior[1]
    /\ \A k \in SettingsKeys :
         cfg[k] = IF settings[k] # Nil /\ FlagName(k) \notin passedFlags
                  THEN settings[k][1] ELSE prior[1][k]
    /\ \A k \in DOMAIN cfg \ SettingsKeys : cfg[k] = prior[1][k]

\* C24 witness: ApplySettings has run where the settings file names a key
\* whose flag was passed with another value, names a key whose flag was
\* not passed with another value than the default, and does not name a
\* third key; the flag test was passed.
C24_Witness ==
  /\ prior # <<>>
  /\ \E k \in SettingsKeys :
       /\ settings[k] # Nil /\ FlagName(k) \in passedFlags
       /\ settings[k][1] # prior[1][k]
  /\ \E k \in SettingsKeys :
       /\ settings[k] # Nil /\ FlagName(k) \notin passedFlags
       /\ settings[k][1] # prior[1][k]
  /\ \E k \in SettingsKeys : settings[k] = Nil
  /\ "test" \in passedFlags /\ prior[1].Test

\* The orders in which ranging over the map of a body's attributes can
\* yield their names: Go leaves the iteration order of a map open.
IterationOrders(body) ==
  LET attributes == Attributes(body)
      n == Len(attributes)
  IN  {[i \in 1..n |-> attributes[p[i]].name] :
         p \in {q \in [1..n -> 1..n] : \A i, j \in 1..n : q[i] = q[j] => i = j}}

CallerBytes == Bytes(heap, [arr |-> 1, len |-> Len(content)])

\* C28: at every statement of Format, Preprocess included, and when it
\* returns, the bytes of the caller's slice are what they were at the
\* call.
C28_InputNotMutated == pc # "" => CallerBytes = content

\* C28 witness: Format has returned Format(content) in another array than
\* the caller's, for a content that ends in a newline, which the trim
\* removes, and that a sort transform returned as it was after a parse
\* error.
C28_Witness ==
  /\ pc = "Return" /\ cfg.SortInputs
  /\ slice.arr # 1
  /\ Bytes(heap, slice) = Format(cfg, content)
  /\ Bytes(heap, slice) # content
  /\ ~ParseConfig(splitDelimiters(content)).ok
  /\ content # <<>> /\ content[Len(content)] = NL

\* At position i of s stands a closing brace that is followed by k
\* newlines, the keyword resource and whitespace.
BraceBeforeResource(s, i, k) ==
  /\ i + k + 2 <= Len(s)
  /\ s[i] = "}"
  /\ \A n \in 1..k : s[i + n] = NL
  /\ s[i + k + 1] = "resource"
  /\ IsSpace(s[i + k + 2])

\* C29: in every output of Format a closing brace that is followed, after
\* zero to two newlines, by the keyword resource and whitespace is
\* followed by exactly two newlines.
C29_TwoNewlinesBeforeResource ==
  Formatted =>
    \A i \in 1..Len(formatted) :
      \A k \in 0..2 : BraceBeforeResource(formatted, i, k) => k = 2

\* What the attribute sorter has to leave alone: for every top-level block
\* in file order, the attributes and nested blocks of its body in their
\* order when its type is not resource, and the nested blocks of its body
\* with theirs when it is.
FrameOfBlock(b) ==
  IF IsResourceBlock(b)
  THEN <<"resource", b.labels, Skeleton(SelectSeq(b.body, IsBlock))>>
  ELSE <<"other", Skeleton(<<b>>)>>

FrameOfFile(file) ==
  LET blocks == SelectSeq(file.nodes, IsBlock)
  IN  [i \in 1..Len(blocks) |-> FrameOfBlock(blocks[i])]

\* C30: for every input that parses, the output of sortResourceInputs
\* parses to the same top-level blocks in the same order, where every
\* block of another type than resource and every block nested in a block
\* has its attributes in the order of the input.
C30_SorterFrame ==
  []((Formatted /\ cfg.SortInputs) =>
       LET file == SortInput
       IN  file.ok =>
             LET out == BlockSortInput
             IN  out.ok /\ FrameOfFile(out) = FrameOfFile(file))

\* C30 witness: the attribute sorter has run on a resource block whose
\* attributes were out of order and that holds a nested block whose
\* attributes are out of order, and it has changed the bytes.
C30_Witness ==
  /\ Formatted /\ cfg.SortInputs /\ SortInput.ok
  /\ BlockSortBytes # splitDelimiters(orig)
  /\ \E i \in 1..Len(SortInput.nodes) :
       /\ IsResourceBlock(SortInput.nodes[i])
       /\ ~AscendingNames(SortInput.nodes[i].body)
       /\ \E j \in 1..Len(SortInput.nodes[i].body) :
            /\ IsBlock(SortInput.nodes[i].body[j])
            /\ ~AscendingNames(SortInput.nodes[i].body[j].body)

====
